---- MODULE Spec2Model ----
(***************************************************************************)
(* Model of src/scripts/config_validator.py (HAP configuration validator). *)
(*                                                                         *)
(* Text is modelled as sequences of one-character strings, so that the     *)
(* substring tests and the regular expressions of the script are computed  *)
(* character by character.  A file of the configuration tree is a record   *)
(* [name, content]; its identity (its path) is its index in `files`.       *)
(* Everything outside the script is an environment choice: whether PyYAML  *)
(* can be imported, whether a read succeeds, what yaml.safe_load does with *)
(* a text, and how the two docker invocations end.                         *)
(***************************************************************************)
EXTENDS Integers, Sequences, FiniteSets

----------------------------------------------------------------------------
(* Bounds of the model *)

MaxFiles == 2        \* files in a configuration tree of the full run
MaxRefPieces == 4    \* pieces in a generated text of the reference scan
MaxHardPieces == 4   \* pieces in a generated text of the hardcoded scan

----------------------------------------------------------------------------
(* Literals of the script *)

SecretTag == <<"!","s","e","c","r","e","t">>
SecretWord == <<"s","e","c","r","e","t">>
ExampleWord == <<"e","x","a","m","p","l","e">>
ApiKeyLit == <<"a","p","i","_","k","e","y",":">>
PasswordLit == <<"p","a","s","s","w","o","r","d",":">>
TokenLit == <<"t","o","k","e","n",":">>
ContainerId == <<"h","a","p","-","d","e","v","-","h","o","m","e","a","s","s","i","s","t","a","n","t">>
MinKeyLen == 20
MinTokenLen == 30
patterns == <<"API key", "Password", "Token">>

----------------------------------------------------------------------------
(* Character classes of Python's re *)

Lower == {"a","b","c","d","e","f","g","h","i","j","k","l","m",
          "n","o","p","q","r","s","t","u","v","w","x","y","z"}
Upper == {"A","B","C","D","E","F","G","H","I","J","K","L","M",
          "N","O","P","Q","R","S","T","U","V","W","X","Y","Z"}
Digit == {"0","1","2","3","4","5","6","7","8","9"}

\* \s, over the characters that occur in the modelled texts
Space == {" ", "\t", "\n"}
\* \w
Word == Lower \cup Upper \cup Digit \cup {"_"}
\* [a-zA-Z0-9_-]
KeyChars == Word \cup {"-"}
\* [a-zA-Z0-9_.-]
TokenChars == KeyChars \cup {"."}

IsSpace(c) == c \in Space
IsWord(c) == c \in Word
\* ['"]
IsQuote(c) == c \in {"'", "\""}
\* . (anything but a newline)
IsDot(c) == c # "\n"

----------------------------------------------------------------------------
(* String primitives *)

\* the literal lit occurs in s at position i
LitAt(s, i, lit) ==
    /\ i >= 1
    /\ i + Len(lit) - 1 <= Len(s)
    /\ \A j \in 1..Len(lit) : s[i + j - 1] = lit[j]

\* Python's  lit in s
Contains(s, lit) == \E i \in 1..Len(s) : LitAt(s, i, lit)

\* end (exclusive) of the longest run of characters of a class from i on,
\* which is where a greedy \s* , \s+ or \w+ started at i stops
SpanEnd(s, i, class) ==
    CHOOSE j \in i..(Len(s) + 1) :
        /\ \A k \in i..(j - 1) : s[k] \in class
        /\ (j = Len(s) + 1 \/ s[j] \notin class)

\* str.strip()
strip(s) ==
    LET keep == {k \in 1..Len(s) : ~IsSpace(s[k])}
    IN  IF keep = {} THEN <<>>
        ELSE SubSeq(s, CHOOSE a \in keep : \A b \in keep : a <= b,
                       CHOOSE a \in keep : \A b \in keep : a >= b)

\* iteration of a text file: the lines, each with its terminating newline
RECURSIVE readlines(_)
readlines(s) ==
    IF s = <<>> THEN <<>>
    ELSE LET nl == {k \in 1..Len(s) : s[k] = "\n"}
             e == IF nl = {} THEN Len(s)
                  ELSE CHOOSE k \in nl : \A j \in nl : k <= j
         IN  <<SubSeq(s, 1, e)>> \o readlines(SubSeq(s, e + 1, Len(s)))

----------------------------------------------------------------------------
(* The regular expressions *)

\* the match of  !secret\s+(\w+)  that starts at position i, if any
SecretMatchAt(s, i) ==
    LET a == i + Len(SecretTag)
        b == IF a <= Len(s) + 1 THEN SpanEnd(s, a, Space) ELSE a
        c == IF b <= Len(s) + 1 THEN SpanEnd(s, b, Word) ELSE b
    IN  IF LitAt(s, i, SecretTag) /\ b > a /\ c > b
        THEN [ok |-> TRUE, name |-> SubSeq(s, b, c - 1), end |-> c]
        ELSE [ok |-> FALSE, name |-> <<>>, end |-> i]

\* secret_pattern.finditer(content): the captured names, left to right,
\* each search resuming where the previous match ended
RECURSIVE finditer(_, _)
finditer(s, i) ==
    IF i > Len(s) THEN <<>>
    ELSE LET m == SecretMatchAt(s, i)
         IN  IF m.ok THEN <<m.name>> \o finditer(s, m.end)
             ELSE finditer(s, i + 1)

\* re.match(r"^(\w+):", line): the captured name, as a 0- or 1-element set
DefinedName(line) ==
    LET e == SpanEnd(line, 1, Word)
    IN  IF e > 1 /\ e <= Len(line) /\ line[e] = ":"
        THEN {SubSeq(line, 1, e - 1)} ELSE {}

\* $ : the end of the string, or just before a final newline
AtEnd(s, j) == j = Len(s) + 1 \/ (j = Len(s) /\ s[j] = "\n")

\* the positions at which  lit\s*['"]?  started at i can end; the regex
\* engine backtracks through every one of them
PrefixEnds(s, i, lit) ==
    IF ~LitAt(s, i, lit) THEN {}
    ELSE LET a == i + Len(lit)
             afterWs == a..SpanEnd(s, a, Space)
         IN  afterWs \cup
             {q + 1 : q \in {r \in afterWs : r <= Len(s) /\ IsQuote(s[r])}}

\* n characters of a class from position p on
RunFrom(s, p, n, class) ==
    /\ p + n - 1 <= Len(s)
    /\ \A k \in p..(p + n - 1) : s[k] \in class

\* re.search(r"api_key:\s*['\"]?[a-zA-Z0-9_-]{20,}['\"]?", line)
ApiKeyPattern(line) ==
    \E i \in 1..Len(line) : \E p \in PrefixEnds(line, i, ApiKeyLit) :
        RunFrom(line, p, MinKeyLen, KeyChars)

\* re.search(r"password:\s*['\"]?(?!!)(?!\s*$).+['\"]?", line)
PasswordPattern(line) ==
    \E i \in 1..Len(line) : \E p \in PrefixEnds(line, i, PasswordLit) :
        /\ ~(p <= Len(line) /\ line[p] = "!")
        /\ ~(\E j \in p..SpanEnd(line, p, Space) : AtEnd(line, j))
        /\ p <= Len(line) /\ IsDot(line[p])

\* re.search(r"token:\s*['\"]?[a-zA-Z0-9_.-]{30,}['\"]?", line)
TokenPattern(line) ==
    \E i \in 1..Len(line) : \E p \in PrefixEnds(line, i, TokenLit) :
        RunFrom(line, p, MinTokenLen, TokenChars)

\* re.search(pattern, line) for the pattern of the given category
Search(pattern_name, line) ==
    CASE pattern_name = "API key"  -> ApiKeyPattern(line)
      [] pattern_name = "Password" -> PasswordPattern(line)
      [] pattern_name = "Token"    -> TokenPattern(line)

----------------------------------------------------------------------------
(* The checks as functions of what they read *)

\* line 44: the files check_yaml_syntax passes over
SkipSyntax(name) == Contains(name, SecretWord) /\ ~Contains(name, ExampleWord)
\* line 94: the files check_secret_references passes over
SkipRefs(name) == Contains(name, SecretWord)
\* the test of line 188 made on the wrong word
SkipHard_example(name) == Contains(name, ExampleWord)
\* line 188: the files check_for_hardcoded_secrets passes over
SkipHard(name) == Contains(name, SecretWord)

\* lines 86-90: the names declared by the lines of the example secrets file
DefinedSecrets(content) ==
    UNION {DefinedName(readlines(content)[n]) :
              n \in 1..Len(readlines(content))}

\* lines 101-104 reporting each missing name of a file once only
MissingIn_dedup(f, content, defined) ==
    LET found == finditer(content, 1)
        first == {k \in 1..Len(found) :
                     /\ found[k] \notin defined
                     /\ \A j \in 1..(k - 1) : found[j] # found[k]}
        pick[k \in 0..Len(found)] ==
            IF k = 0 THEN <<>>
            ELSE IF k \in first THEN Append(pick[k - 1], <<found[k], f>>)
            ELSE pick[k - 1]
    IN  pick[Len(found)]

\* lines 101-104: the entries one file adds to `missing`
MissingIn(f, content, defined) ==
    LET found == finditer(content, 1)
        undeclared == SelectSeq(found, LAMBDA nm : nm \notin defined)
    IN  [k \in 1..Len(undeclared) |-> <<undeclared[k], f>>]

\* lines 198-200: the entries one line adds to `suspicious`, pattern by pattern
RECURSIVE PatternHits(_, _, _, _)
PatternHits(f, line_num, line, j) ==
    IF j > Len(patterns) THEN <<>>
    ELSE (IF Search(patterns[j], line)
          THEN << <<f, line_num, strip(line), patterns[j]>> >>
          ELSE <<>>)
         \o PatternHits(f, line_num, line, j + 1)

\* lines 195-200 without the exemption of the lines that hold the tag
LineFindings_noexempt(f, line_num, line) == PatternHits(f, line_num, line, 1)

\* lines 195-200: one iteration of the line loop
LineFindings(f, line_num, line) ==
    IF Contains(line, SecretTag) THEN <<>>
    ELSE PatternHits(f, line_num, line, 1)

\* lines 193-200: the entries added by the first k lines of a file,
\* numbered from 1 by enumerate(f, 1)
RECURSIVE HardFindings(_, _, _)
HardFindings(f, lines, k) ==
    IF k = 0 THEN <<>>
    ELSE HardFindings(f, lines, k - 1) \o LineFindings(f, k, lines[k])

\* lines 157-165 with a missing docker executable treated as a failure
ExceptResult_strict(kind) ==
    IF kind \in {"TimeoutExpired", "FileNotFoundError"} THEN "False"
    ELSE "True"

\* lines 157-165: what check_homeassistant_config returns when
\* subprocess.run raises
ExceptResult(kind) == IF kind = "TimeoutExpired" THEN "False" ELSE "True"

\* line 130 without the test of the status output
ContainerRunning_any(stdout) == TRUE

\* line 130: the container is reported as running
ContainerRunning(stdout) == Contains(stdout, ContainerId)

\* lines 146-155: the verdict on a completed config check
ExecResult(returncode) == IF returncode = 0 THEN "True" ELSE "False"

\* lines 219-220: the verdict after the syntax check
PassedAfterYaml(passed, yaml_errors) ==
    IF yaml_errors # <<>> THEN FALSE ELSE passed

\* lines 243-244: the verdict after the external config check
PassedAfterHa(passed, ha) == IF ha = "False" THEN FALSE ELSE passed

\* lines 248-255 and 259: the status main returns to sys.exit
ExitStatus(passed) == IF passed THEN 0 ELSE 1

----------------------------------------------------------------------------
(* State *)

VARIABLES
    files,            \* CONFIG_DIR.glob("**/*.yaml"), in the order it yields
    pyyaml,           \* `import yaml` succeeds
    example,          \* SECRETS_EXAMPLE: [exists, readable, content]
    pc,               \* the statement the script is at
    ret_to,           \* who called the running check: "main" or "caller"
    yaml_file,        \* loop variable of the three file loops (an index)
    all_passed,       \* main
    errors,           \* check_yaml_syntax
    defined_secrets,  \* check_secret_references
    missing,          \* check_secret_references
    suspicious,       \* check_for_hardcoded_secrets
    ha_check,         \* result of check_homeassistant_config, or "unset"
    summary,          \* the PASS/FAIL line printed by main, or "none"
    exit_code,        \* exit status of the process, -1 while it runs
    uncaught,         \* what ended the run early, or "none"
    order,            \* history: the checks main has called
    finished,         \* history: the checks that have returned
    yaml_seen,        \* history: what check_yaml_syntax did with each file
    refs_seen,        \* history: what check_secret_references did with each
    hard_seen,        \* history: what check_for_hardcoded_secrets did
    ps_seen,          \* history: outcomes of `docker compose ps`
    exec_seen         \* history: outcomes of the check_config invocation

vars == <<files, pyyaml, example, pc, ret_to, yaml_file, all_passed, errors,
          defined_secrets, missing, suspicious, ha_check, summary, exit_code,
          uncaught, order, finished, yaml_seen, refs_seen, hard_seen,
          ps_seen, exec_seen>>

env == <<files, pyyaml, example, ret_to>>

----------------------------------------------------------------------------
(* The environment the script runs in *)

Name_ui == <<"u","i",".","y","a","m","l">>
Name_mqtt == <<"m","q","t","t",".","y","a","m","l">>
Name_secrets == <<"s","e","c","r","e","t","s",".","y","a","m","l">>
Name_secrets_example ==
    <<"s","e","c","r","e","t","s",".","e","x","a","m","p","l","e",".","y","a","m","l">>

\* password: hunter2 / key: !secret a
Text_ui ==
    <<"p","a","s","s","w","o","r","d",":"," ","h","u","n","t","e","r","2","\n",
      "k","e","y",":"," ","!","s","e","c","r","e","t"," ","a","\n">>
\* password: hunter2 / pin: !secret b
Text_secrets ==
    <<"p","a","s","s","w","o","r","d",":"," ","h","u","n","t","e","r","2","\n",
      "p","i","n",":"," ","!","s","e","c","r","e","t"," ","b","\n">>
\* token: !secret b / password: x
Text_secrets_example ==
    <<"t","o","k","e","n",":"," ","!","s","e","c","r","e","t"," ","b","\n",
      "p","a","s","s","w","o","r","d",":"," ","x","\n">>
\* password: x / u: !secret b / p: !secret b
Text_mqtt ==
    <<"p","a","s","s","w","o","r","d",":"," ","x","\n",
      "u",":"," ","!","s","e","c","r","e","t"," ","b","\n",
      "p",":"," ","!","s","e","c","r","e","t"," ","b","\n">>

\* the files a configuration tree of the full run is made of
Catalog ==
    { [name |-> Name_ui, content |-> Text_ui],
      [name |-> Name_mqtt, content |-> Text_mqtt],
      [name |-> Name_secrets, content |-> Text_secrets],
      [name |-> Name_secrets_example, content |-> Text_secrets_example] }

\* the configuration trees: up to MaxFiles distinct files, in any glob order
Trees ==
    UNION { {t \in [1..n -> Catalog] :
                \A i, j \in 1..n : i # j => t[i] # t[j]} : n \in 0..MaxFiles }

NoExample == [exists |-> FALSE, readable |-> FALSE, content |-> <<>>]
LockedExample == [exists |-> TRUE, readable |-> FALSE, content |-> <<>>]
ExampleOf(text) == [exists |-> TRUE, readable |-> TRUE, content |-> text]

\* a: 1
Example_a == <<"a",":"," ","1","\n">>
\* (indented) a: 1 / b:x
Example_b == <<" ","a",":"," ","1","\n","b",":","x","\n">>
\* ab: 1
Example_ab == <<"a","b",":"," ","1","\n">>

Raised(kind) == [kind |-> kind, stdout |-> <<>>, returncode |-> 0]
Completed(out, rc) == [kind |-> "completed", stdout |-> out, returncode |-> rc]

Stdout_ha ==
    <<"N","A","M","E","\n","h","a","p","-","d","e","v","-","h","o","m","e",
      "a","s","s","i","s","t","a","n","t"," ","u","p","\n">>
Stdout_mqtt ==
    <<"N","A","M","E","\n","h","a","p","-","d","e","v","-","m","q","t","t",
      " ","u","p","\n">>

RaisedOutcomes ==
    {Raised("TimeoutExpired"), Raised("FileNotFoundError"), Raised("Exception")}

\* how subprocess.run(["docker", "compose", "ps"], timeout=10) can end
PsOutcomes ==
    RaisedOutcomes \cup
    {Completed(<<>>, 1), Completed(Stdout_mqtt, 0), Completed(Stdout_ha, 0)}

\* how subprocess.run([... "check_config" ...], timeout=120) can end
ExecOutcomes ==
    RaisedOutcomes \cup {Completed(<<>>, rc) : rc \in {0, 1, 2}}

\* what open/read/yaml.safe_load can do with a file in check_yaml_syntax:
\* load it, raise yaml.YAMLError, fail to read it, or raise something else
YamlOutcomes == {"ok", "YAMLError", "OSError", "ValueError"}

Unseen(n) == [i \in 1..n |-> "none"]
UnseenHard(n) == [i \in 1..n |-> [st |-> "none", n |-> 0]]

\* replace the entry of the file at the loop variable
Mark(seen, what) == [seen EXCEPT ![yaml_file] = what]

----------------------------------------------------------------------------
(* Initial states *)

InitRun(tree, importable, ex, start, caller) ==
    /\ files = tree
    /\ pyyaml = importable
    /\ example = ex
    /\ pc = start
    /\ ret_to = caller
    /\ yaml_file = 1
    /\ all_passed = TRUE
    /\ errors = <<>>
    /\ defined_secrets = {}
    /\ missing = <<>>
    /\ suspicious = <<>>
    /\ ha_check = "unset"
    /\ summary = "none"
    /\ exit_code = -1
    /\ uncaught = "none"
    /\ order = <<>>
    /\ finished = <<>>
    /\ yaml_seen = Unseen(Len(tree))
    /\ refs_seen = Unseen(Len(tree))
    /\ hard_seen = UnseenHard(Len(tree))
    /\ ps_seen = <<>>
    /\ exec_seen = <<>>

\* python src/scripts/config_validator.py
Init ==
    \E tree \in Trees, importable \in BOOLEAN,
       ex \in {NoExample, LockedExample, ExampleOf(Example_a)} :
        InitRun(tree, importable, ex, "main", "main")

----------------------------------------------------------------------------
(* Leaving a check *)

\* the statement a check returns to
Return(check) == IF ret_to = "main" THEN "after_" \o check ELSE "returned"

\* an exception nobody catches ends the interpreter with status 1
Raise(what) ==
    /\ pc' = "exit"
    /\ uncaught' = what
    /\ exit_code' = 1

----------------------------------------------------------------------------
(* main, lines 208-255 *)

\* lines 214-218: all_passed = True, then the syntax check is called
MainStart ==
    /\ pc = "main"
    /\ all_passed' = TRUE
    /\ order' = Append(order, "syntax")
    /\ pc' = "yaml_import"
    /\ UNCHANGED <<env, yaml_file, errors, defined_secrets, missing,
                   suspicious, ha_check, summary, exit_code, uncaught,
                   finished, yaml_seen, refs_seen, hard_seen, ps_seen,
                   exec_seen>>

\* lines 219-224 going straight to the summary when the syntax check
\* found errors
AfterSyntax_shortcut ==
    /\ pc = "after_syntax"
    /\ all_passed' = PassedAfterYaml(all_passed, errors)
    /\ order' = IF errors # <<>> THEN order ELSE Append(order, "refs")
    /\ pc' = IF errors # <<>> THEN "after_ha" ELSE "refs_defs"
    /\ UNCHANGED <<env, yaml_file, errors, defined_secrets, missing,
                   suspicious, ha_check, summary, exit_code, uncaught,
                   finished, yaml_seen, refs_seen, hard_seen, ps_seen,
                   exec_seen>>

\* lines 219-224: the syntax verdict, then the reference check is called
AfterSyntax ==
    /\ pc = "after_syntax"
    /\ all_passed' = PassedAfterYaml(all_passed, errors)
    /\ order' = Append(order, "refs")
    /\ pc' = "refs_defs"
    /\ UNCHANGED <<env, yaml_file, errors, defined_secrets, missing,
                   suspicious, ha_check, summary, exit_code, uncaught,
                   finished, yaml_seen, refs_seen, hard_seen, ps_seen,
                   exec_seen>>

\* lines 225-233 with missing references failing the run
AfterRefs_fatal ==
    /\ pc = "after_refs"
    /\ all_passed' = IF missing # <<>> THEN FALSE ELSE all_passed
    /\ order' = Append(order, "hard")
    /\ pc' = "hard_start"
    /\ UNCHANGED <<env, yaml_file, errors, defined_secrets, missing,
                   suspicious, ha_check, summary, exit_code, uncaught,
                   finished, yaml_seen, refs_seen, hard_seen, ps_seen,
                   exec_seen>>

\* lines 225-233: the warnings are printed, then the hardcoded-secret
\* check is called
AfterRefs ==
    /\ pc = "after_refs"
    /\ order' = Append(order, "hard")
    /\ pc' = "hard_start"
    /\ UNCHANGED <<env, yaml_file, all_passed, errors, defined_secrets,
                   missing, suspicious, ha_check, summary, exit_code,
                   uncaught, finished, yaml_seen, refs_seen, hard_seen,
                   ps_seen, exec_seen>>

\* lines 234-242: the warnings are printed, then the external check is called
AfterHard ==
    /\ pc = "after_hard"
    /\ order' = Append(order, "ha")
    /\ pc' = "ha_ps"
    /\ UNCHANGED <<env, yaml_file, all_passed, errors, defined_secrets,
                   missing, suspicious, ha_check, summary, exit_code,
                   uncaught, finished, yaml_seen, refs_seen, hard_seen,
                   ps_seen, exec_seen>>

\* lines 243-255 and 259: the verdict, the summary and the exit status
AfterHa ==
    /\ pc = "after_ha"
    /\ all_passed' = PassedAfterHa(all_passed, ha_check)
    /\ summary' = IF all_passed' THEN "VALIDATION PASSED"
                  ELSE "VALIDATION FAILED"
    /\ exit_code' = ExitStatus(all_passed')
    /\ pc' = "exit"
    /\ UNCHANGED <<env, yaml_file, errors, defined_secrets, missing,
                   suspicious, ha_check, uncaught, order, finished,
                   yaml_seen, refs_seen, hard_seen, ps_seen, exec_seen>>

----------------------------------------------------------------------------
(* check_yaml_syntax, lines 27-67 *)

\* lines 34-38: PyYAML is missing, sys.exit(1)
YamlImportFail ==
    /\ pc = "yaml_import"
    /\ ~pyyaml
    /\ pc' = "exit"
    /\ uncaught' = "SystemExit"
    /\ exit_code' = 1
    /\ UNCHANGED <<env, yaml_file, all_passed, errors, defined_secrets,
                   missing, suspicious, ha_check, summary, order, finished,
                   yaml_seen, refs_seen, hard_seen, ps_seen, exec_seen>>

\* lines 34-42: PyYAML is there, errors = [] and the glob starts
YamlImport ==
    /\ pc = "yaml_import"
    /\ pyyaml
    /\ errors' = <<>>
    /\ yaml_file' = 1
    /\ pc' = "yaml_loop"
    /\ UNCHANGED <<env, all_passed, defined_secrets, missing, suspicious,
                   ha_check, summary, exit_code, uncaught, order, finished,
                   yaml_seen, refs_seen, hard_seen, ps_seen, exec_seen>>

\* lines 44-45: a protected secrets file is passed over
YamlSkip ==
    /\ pc = "yaml_loop"
    /\ yaml_file <= Len(files)
    /\ SkipSyntax(files[yaml_file].name)
    /\ yaml_seen' = Mark(yaml_seen, "skipped")
    /\ yaml_file' = yaml_file + 1
    /\ UNCHANGED <<env, pc, all_passed, errors, defined_secrets, missing,
                   suspicious, ha_check, summary, exit_code, uncaught,
                   order, finished, refs_seen, hard_seen, ps_seen,
                   exec_seen>>

\* lines 47-65 leaving the loop at the first yaml.YAMLError
YamlLoad_break ==
    /\ pc = "yaml_loop"
    /\ yaml_file <= Len(files)
    /\ ~SkipSyntax(files[yaml_file].name)
    /\ \E outcome \in YamlOutcomes :
        /\ yaml_seen' = Mark(yaml_seen, outcome)
        /\ IF outcome \in {"ok", "YAMLError"}
           THEN /\ errors' = IF outcome = "YAMLError"
                             THEN Append(errors, <<yaml_file, outcome>>)
                             ELSE errors
                /\ yaml_file' = IF outcome = "YAMLError" THEN Len(files) + 1
                                ELSE yaml_file + 1
                /\ UNCHANGED <<pc, uncaught, exit_code>>
           ELSE /\ Raise(outcome)
                /\ UNCHANGED <<errors, yaml_file>>
    /\ UNCHANGED <<env, all_passed, defined_secrets, missing, suspicious,
                   ha_check, summary, order, finished, refs_seen, hard_seen,
                   ps_seen, exec_seen>>

\* lines 47-65: the file is read and loaded; only yaml.YAMLError is caught.
\* The text handed to yaml.safe_load is the content with the custom tags
\* replaced; what the library makes of it is the environment's choice.
YamlLoad ==
    /\ pc = "yaml_loop"
    /\ yaml_file <= Len(files)
    /\ ~SkipSyntax(files[yaml_file].name)
    /\ \E outcome \in YamlOutcomes :
        /\ yaml_seen' = Mark(yaml_seen, outcome)
        /\ IF outcome \in {"ok", "YAMLError"}
           THEN /\ errors' = IF outcome = "YAMLError"
                             THEN Append(errors, <<yaml_file, outcome>>)
                             ELSE errors
                /\ yaml_file' = yaml_file + 1
                /\ UNCHANGED <<pc, uncaught, exit_code>>
           ELSE /\ Raise(outcome)
                /\ UNCHANGED <<errors, yaml_file>>
    /\ UNCHANGED <<env, all_passed, defined_secrets, missing, suspicious,
                   ha_check, summary, order, finished, refs_seen, hard_seen,
                   ps_seen, exec_seen>>

\* line 67: return errors
YamlReturn ==
    /\ pc = "yaml_loop"
    /\ yaml_file > Len(files)
    /\ finished' = Append(finished, "syntax")
    /\ pc' = Return("syntax")
    /\ UNCHANGED <<env, yaml_file, all_passed, errors, defined_secrets,
                   missing, suspicious, ha_check, summary, exit_code,
                   uncaught, order, yaml_seen, refs_seen, hard_seen,
                   ps_seen, exec_seen>>

----------------------------------------------------------------------------
(* check_secret_references, lines 70-109 *)

\* lines 79-93: missing = [], the declared set is built, the glob starts
RefsDefs ==
    /\ pc = "refs_defs"
    /\ example.exists => example.readable
    /\ missing' = <<>>
    /\ defined_secrets' = IF example.exists
                          THEN DefinedSecrets(example.content) ELSE {}
    /\ yaml_file' = 1
    /\ pc' = "refs_loop"
    /\ UNCHANGED <<env, all_passed, errors, suspicious, ha_check, summary,
                   exit_code, uncaught, order, finished, yaml_seen,
                   refs_seen, hard_seen, ps_seen, exec_seen>>

\* lines 84-85: the example file exists but cannot be read; nothing
\* catches the exception of open
RefsDefsFail ==
    /\ pc = "refs_defs"
    /\ example.exists /\ ~example.readable
    /\ missing' = <<>>
    /\ defined_secrets' = {}
    /\ Raise("OSError")
    /\ UNCHANGED <<env, yaml_file, all_passed, errors, suspicious, ha_check,
                   summary, order, finished, yaml_seen, refs_seen,
                   hard_seen, ps_seen, exec_seen>>

\* lines 94-95: every file with "secret" in its name is passed over
RefsSkip ==
    /\ pc = "refs_loop"
    /\ yaml_file <= Len(files)
    /\ SkipRefs(files[yaml_file].name)
    /\ refs_seen' = Mark(refs_seen, "skipped")
    /\ yaml_file' = yaml_file + 1
    /\ UNCHANGED <<env, pc, all_passed, errors, defined_secrets, missing,
                   suspicious, ha_check, summary, exit_code, uncaught,
                   order, finished, yaml_seen, hard_seen, ps_seen,
                   exec_seen>>

\* lines 97-107: the whole file is read, then searched; a failed read is
\* swallowed by `except Exception: pass`
RefsScan ==
    /\ pc = "refs_loop"
    /\ yaml_file <= Len(files)
    /\ ~SkipRefs(files[yaml_file].name)
    /\ \E readable \in BOOLEAN :
        /\ refs_seen' = Mark(refs_seen, IF readable THEN "read" ELSE "failed")
        /\ missing' = IF readable
                      THEN missing \o MissingIn(yaml_file,
                                                files[yaml_file].content,
                                                defined_secrets)
                      ELSE missing
    /\ yaml_file' = yaml_file + 1
    /\ UNCHANGED <<env, pc, all_passed, errors, defined_secrets, suspicious,
                   ha_check, summary, exit_code, uncaught, order, finished,
                   yaml_seen, hard_seen, ps_seen, exec_seen>>

\* line 109: return missing
RefsReturn ==
    /\ pc = "refs_loop"
    /\ yaml_file > Len(files)
    /\ finished' = Append(finished, "refs")
    /\ pc' = Return("refs")
    /\ UNCHANGED <<env, yaml_file, all_passed, errors, defined_secrets,
                   missing, suspicious, ha_check, summary, exit_code,
                   uncaught, order, yaml_seen, refs_seen, hard_seen,
                   ps_seen, exec_seen>>

----------------------------------------------------------------------------
(* check_for_hardcoded_secrets, lines 168-205 *)

\* lines 177-186: suspicious = [] and the glob starts
HardStart ==
    /\ pc = "hard_start"
    /\ suspicious' = <<>>
    /\ yaml_file' = 1
    /\ pc' = "hard_loop"
    /\ UNCHANGED <<env, all_passed, errors, defined_secrets, missing,
                   ha_check, summary, exit_code, uncaught, order, finished,
                   yaml_seen, refs_seen, hard_seen, ps_seen, exec_seen>>

\* lines 188-189: every file with "secret" in its name is passed over
HardSkip ==
    /\ pc = "hard_loop"
    /\ yaml_file <= Len(files)
    /\ SkipHard(files[yaml_file].name)
    /\ hard_seen' = Mark(hard_seen, [st |-> "skipped", n |-> 0])
    /\ yaml_file' = yaml_file + 1
    /\ UNCHANGED <<env, pc, all_passed, errors, defined_secrets, missing,
                   suspicious, ha_check, summary, exit_code, uncaught,
                   order, finished, yaml_seen, refs_seen, ps_seen,
                   exec_seen>>

\* lines 191-203 without the try/except around the read
HardScan_raise ==
    /\ pc = "hard_loop"
    /\ yaml_file <= Len(files)
    /\ ~SkipHard(files[yaml_file].name)
    /\ LET lines == readlines(files[yaml_file].content)
       IN  \E k \in 0..Len(lines), failed \in BOOLEAN :
            /\ failed \/ k = Len(lines)
            /\ hard_seen' = Mark(hard_seen,
                                 [st |-> IF failed THEN "failed" ELSE "read",
                                  n |-> k])
            /\ suspicious' = suspicious \o HardFindings(yaml_file, lines, k)
            /\ IF failed
               THEN Raise("OSError") /\ UNCHANGED yaml_file
               ELSE /\ yaml_file' = yaml_file + 1
                    /\ UNCHANGED <<pc, uncaught, exit_code>>
    /\ UNCHANGED <<env, all_passed, errors, defined_secrets, missing,
                   ha_check, summary, order, finished, yaml_seen, refs_seen,
                   ps_seen, exec_seen>>

\* lines 191-203: the file is read line by line, each line searched as it
\* arrives; the read can fail at the open or after any number k of lines,
\* and `except Exception: pass` then leaves the loop over the lines
HardScan ==
    /\ pc = "hard_loop"
    /\ yaml_file <= Len(files)
    /\ ~SkipHard(files[yaml_file].name)
    /\ LET lines == readlines(files[yaml_file].content)
       IN  \E k \in 0..Len(lines), failed \in BOOLEAN :
            /\ failed \/ k = Len(lines)
            /\ hard_seen' = Mark(hard_seen,
                                 [st |-> IF failed THEN "failed" ELSE "read",
                                  n |-> k])
            /\ suspicious' = suspicious \o HardFindings(yaml_file, lines, k)
    /\ yaml_file' = yaml_file + 1
    /\ UNCHANGED <<env, pc, all_passed, errors, defined_secrets, missing,
                   ha_check, summary, exit_code, uncaught, order, finished,
                   yaml_seen, refs_seen, ps_seen, exec_seen>>

\* line 205: return suspicious
HardReturn ==
    /\ pc = "hard_loop"
    /\ yaml_file > Len(files)
    /\ finished' = Append(finished, "hard")
    /\ pc' = Return("hard")
    /\ UNCHANGED <<env, yaml_file, all_passed, errors, defined_secrets,
                   missing, suspicious, ha_check, summary, exit_code,
                   uncaught, order, yaml_seen, refs_seen, hard_seen,
                   ps_seen, exec_seen>>

----------------------------------------------------------------------------
(* check_homeassistant_config, lines 112-165 *)

\* lines 119-133 and 157-165: the status query, and the return when it
\* raises or does not list the container
HaPs ==
    /\ pc = "ha_ps"
    /\ \E outcome \in PsOutcomes :
        /\ ps_seen' = Append(ps_seen, outcome)
        /\ IF outcome.kind = "completed" /\ ContainerRunning(outcome.stdout)
           THEN /\ pc' = "ha_exec"
                /\ UNCHANGED <<ha_check, finished>>
           ELSE /\ ha_check' = IF outcome.kind = "completed" THEN "True"
                               ELSE ExceptResult(outcome.kind)
                /\ finished' = Append(finished, "ha")
                /\ pc' = Return("ha")
    /\ UNCHANGED <<env, yaml_file, all_passed, errors, defined_secrets,
                   missing, suspicious, summary, exit_code, uncaught, order,
                   yaml_seen, refs_seen, hard_seen, exec_seen>>

\* lines 136-165: the config check in the container, and the return
HaExec ==
    /\ pc = "ha_exec"
    /\ \E outcome \in ExecOutcomes :
        /\ exec_seen' = Append(exec_seen, outcome)
        /\ ha_check' = IF outcome.kind = "completed"
                       THEN ExecResult(outcome.returncode)
                       ELSE ExceptResult(outcome.kind)
    /\ finished' = Append(finished, "ha")
    /\ pc' = Return("ha")
    /\ UNCHANGED <<env, yaml_file, all_passed, errors, defined_secrets,
                   missing, suspicious, summary, exit_code, uncaught, order,
                   yaml_seen, refs_seen, hard_seen, ps_seen>>

----------------------------------------------------------------------------
(* The full run *)

Next ==
    \/ MainStart
    \/ YamlImportFail
    \/ YamlImport
    \/ YamlSkip
    \/ YamlLoad
    \/ YamlReturn
    \/ AfterSyntax
    \/ RefsDefs
    \/ RefsDefsFail
    \/ RefsSkip
    \/ RefsScan
    \/ RefsReturn
    \/ AfterRefs
    \/ HardStart
    \/ HardSkip
    \/ HardScan
    \/ HardReturn
    \/ AfterHard
    \/ HaPs
    \/ HaExec
    \/ AfterHa

Spec == Init /\ [][Next]_vars

----------------------------------------------------------------------------
(* The two scans called on their own, over generated texts *)

RECURSIVE Concat(_)
Concat(ss) == IF ss = <<>> THEN <<>> ELSE Head(ss) \o Concat(Tail(ss))

\* the texts made of at most n of the given pieces
Texts(pieces, n) ==
    UNION { {Concat(p) : p \in [1..k -> pieces]} : k \in 0..n }

Run(c, n) == [k \in 1..n |-> c]

RefPieces ==
    {SecretTag, SecretTag \o <<" ", "a">>, <<" ">>, <<"\n">>, <<"a">>,
     <<"b">>, <<"-">>}

HardPieces ==
    {PasswordLit, SecretTag, <<" ">>, <<"\n">>, <<"!">>, <<"'">>, <<"x">>}

\* one-line texts around the length thresholds of the key and token patterns
LengthTexts ==
    { pre \o lit \o sp \o q \o Run(c, n) \o <<"\n">> :
        pre \in {<<>>, PasswordLit \o <<" ">>},
        lit \in {ApiKeyLit, TokenLit},
        sp \in {<<>>, <<" ">>},
        q \in {<<>>, <<"'">>},
        c \in {"k", "."},
        n \in {MinKeyLen - 1, MinKeyLen, MinTokenLen - 1, MinTokenLen} }

OneFile(name, text) == << [name |-> name, content |-> text] >>

\* a generated file followed by a file with two references to b
TwoFiles(name, text) ==
    << [name |-> name, content |-> text],
       [name |-> Name_mqtt, content |-> Text_mqtt] >>

InitRefs ==
    \E text \in Texts(RefPieces, MaxRefPieces),
       name \in {Name_ui, Name_secrets},
       ex \in {NoExample, LockedExample, ExampleOf(Example_a),
               ExampleOf(Example_b), ExampleOf(Example_ab)} :
        InitRun(TwoFiles(name, text), TRUE, ex, "refs_defs", "caller")

NextRefs ==
    \/ RefsDefs
    \/ RefsDefsFail
    \/ RefsSkip
    \/ RefsScan
    \/ RefsReturn

SpecRefs == InitRefs /\ [][NextRefs]_vars

InitHard ==
    \E text \in Texts(HardPieces, MaxHardPieces) \cup LengthTexts,
       name \in {Name_ui, Name_secrets} :
        InitRun(OneFile(name, text), TRUE, NoExample, "hard_start", "caller")

NextHard ==
    \/ HardStart
    \/ HardSkip
    \/ HardScan
    \/ HardReturn

SpecHard == InitHard /\ [][NextHard]_vars

----------------------------------------------------------------------------
(* Vocabulary of the properties *)

AllChecks == <<"syntax", "refs", "hard", "ha">>
Categories == {"API key", "Password", "Token"}

IsPrefix(s, t) == Len(s) <= Len(t) /\ \A k \in 1..Len(s) : s[k] = t[k]
Has(s, x) == \E k \in 1..Len(s) : s[k] = x
Count(s, x) == Cardinality({k \in 1..Len(s) : s[k] = x})
Files == 1..Len(files)

\* a protected secrets file, as the glossary defines it
Protected(f) ==
    /\ Contains(files[f].name, SecretWord)
    /\ ~Contains(files[f].name, ExampleWord)

Untouched == {"none", "skipped"}

----------------------------------------------------------------------------
(* C1: exit status *)

\* Original statement of C1: in every run of main the exit status is 1 if
\* and only if check_yaml_syntax found an error or
\* check_homeassistant_config returned False, and 0 otherwise.
C1_ExitOnlyOnFindings ==
    pc = "exit" =>
        exit_code = IF errors # <<>> \/ ha_check = "False" THEN 1 ELSE 0

\* C1 (amended): a run in which all four checks return exits with 1 if and
\* only if the syntax check found an error or the external check returned
\* False, and with 0 otherwise; a run ended early by sys.exit(1) (PyYAML
\* missing) or by an uncaught exception exits with 1; the findings of the
\* two secret scans never enter the exit status.
C1_ExitStatus ==
    /\ pc = "exit" =>
        exit_code = IF uncaught # "none" \/ errors # <<>> \/ ha_check = "False"
                    THEN 1 ELSE 0
    /\ pc = "exit" /\ uncaught = "none" =>
        /\ finished = AllChecks
        /\ exit_code = IF errors # <<>> \/ ha_check = "False" THEN 1 ELSE 0
    /\ pc # "exit" => exit_code = -1

\* a run that passed although both secret scans reported findings
C1_Witness ==
    /\ pc = "exit"
    /\ exit_code = 0
    /\ missing # <<>>
    /\ suspicious # <<>>

----------------------------------------------------------------------------
(* C2: result of check_homeassistant_config *)

TimedOut ==
    \/ \E k \in 1..Len(ps_seen) : ps_seen[k].kind = "TimeoutExpired"
    \/ \E k \in 1..Len(exec_seen) : exec_seen[k].kind = "TimeoutExpired"

ExecFailed ==
    \E k \in 1..Len(exec_seen) :
        exec_seen[k].kind = "completed" /\ exec_seen[k].returncode # 0

\* C2: check_homeassistant_config returns False exactly when one of its two
\* invocations timed out or the config check finished with a non-zero exit
\* status, and True in every other outcome.
C2_HaResult ==
    /\ Has(finished, "ha") <=> ha_check # "unset"
    /\ ha_check # "unset" =>
        ha_check = IF TimedOut \/ ExecFailed THEN "False" ELSE "True"

\* the docker executable was not found and the check returned True
C2_Witness ==
    /\ Has(finished, "ha")
    /\ ps_seen = <<Raised("FileNotFoundError")>>
    /\ ha_check = "True"

----------------------------------------------------------------------------
(* C3: the config check is invoked at most once, after the container is seen *)

\* C3: the config-check command is invoked at most once per call, and only
\* after a status query that completed with the container identifier in its
\* output; when the identifier is absent the function returns True without
\* invoking the config check.
C3_ExecOnce ==
    /\ Len(ps_seen) <= 1
    /\ Len(exec_seen) <= 1
    /\ exec_seen # <<>> \/ pc = "ha_exec" =>
        /\ Len(ps_seen) = 1
        /\ ps_seen[1].kind = "completed"
        /\ Contains(ps_seen[1].stdout, ContainerId)
    /\ \A k \in 1..Len(ps_seen) :
        ps_seen[k].kind = "completed" /\ ~Contains(ps_seen[k].stdout, ContainerId)
            => ha_check = "True" /\ exec_seen = <<>> /\ pc # "ha_exec"

\* the status query listed another container only, and the check returned
C3_Witness ==
    /\ ps_seen = <<Completed(Stdout_mqtt, 0)>>
    /\ Has(finished, "ha")
    /\ exec_seen = <<>>

----------------------------------------------------------------------------
(* C4: order of the checks *)

\* Original statement of C4: in every run of main each of the four checks
\* is executed exactly once, in the fixed order.
C4_EveryRunRunsAll == pc = "exit" => order = AllChecks

\* C4 (amended): the checks are called in the fixed order, each at most
\* once and each only after the previous one returned; a run that is not
\* ended inside a check (by sys.exit(1) or an uncaught exception) runs all
\* four whatever the earlier ones found, and the summary is printed only
\* after all four have returned.
C4_Order ==
    /\ IsPrefix(order, AllChecks)
    /\ IsPrefix(finished, order)
    /\ Len(order) <= Len(finished) + 1
    /\ summary # "none" => finished = AllChecks
    /\ pc = "exit" /\ uncaught = "none" =>
        /\ order = AllChecks
        /\ finished = AllChecks
        /\ summary # "none"

\* a run whose syntax check found an error and that still ran all four
C4_Witness ==
    /\ pc = "exit"
    /\ errors # <<>>
    /\ order = AllChecks
    /\ summary = "VALIDATION FAILED"

----------------------------------------------------------------------------
(* C5: the syntax check does not stop at a parse error *)

ErrorsOf(f) == Cardinality({k \in 1..Len(errors) : errors[k][1] = f})

SyntaxEnded ==
    /\ pyyaml
    /\ Has(order, "syntax")
    /\ Has(finished, "syntax") \/ (pc = "exit" /\ finished = <<>>)

\* Original statement of C5: check_yaml_syntax processes every non-protected
\* file, a failure on one file never preventing the remaining files from
\* being checked, with exactly one entry for each file that fails and none
\* for a file that parses.
C5_EveryFileChecked ==
    SyntaxEnded =>
        \A f \in Files :
            ~Protected(f) =>
                /\ yaml_seen[f] # "none"
                /\ ErrorsOf(f) = IF yaml_seen[f] = "ok" THEN 0 ELSE 1

\* C5 (amended): a yaml.YAMLError on one file never prevents the remaining
\* files from being checked: whenever check_yaml_syntax returns, every
\* non-protected file has been loaded and the list holds exactly one entry
\* for each file whose load raised yaml.YAMLError and none for any other
\* file; the check ends before the last file only by an exception other
\* than yaml.YAMLError (a failed read included), raised by the file the
\* loop is at.
C5_NoShortCircuit ==
    /\ Has(finished, "syntax") =>
        \A f \in Files :
            /\ Protected(f) => yaml_seen[f] = "skipped" /\ ErrorsOf(f) = 0
            /\ ~Protected(f) =>
                /\ yaml_seen[f] \in {"ok", "YAMLError"}
                /\ ErrorsOf(f) = IF yaml_seen[f] = "YAMLError" THEN 1 ELSE 0
    /\ \A k \in 1..Len(errors) :
        errors[k][1] \in Files /\ yaml_seen[errors[k][1]] = "YAMLError"
    /\ SyntaxEnded /\ ~Has(finished, "syntax") =>
        /\ yaml_file \in Files
        /\ yaml_seen[yaml_file] \in {"OSError", "ValueError"}
        /\ uncaught = yaml_seen[yaml_file]

\* the first file failed to parse and the second was still loaded
C5_Witness ==
    /\ Has(finished, "syntax")
    /\ Len(files) >= 2
    /\ yaml_seen[1] = "YAMLError"
    /\ yaml_seen[2] \in {"ok", "YAMLError"}
    /\ ErrorsOf(1) = 1

----------------------------------------------------------------------------
(* C6: the entries of check_secret_references *)

\* the positions of a text where the reference tag is followed by
\* whitespace and an identifier
Occurrences(s) ==
    {i \in 1..Len(s) :
        /\ LitAt(s, i, SecretTag)
        /\ \E j \in (i + Len(SecretTag) + 1)..Len(s) :
            /\ \A k \in (i + Len(SecretTag))..(j - 1) : IsSpace(s[k])
            /\ IsWord(s[j])}

\* the identifier of the occurrence at position i
IdentifierAt(s, i) ==
    LET j == CHOOSE j \in (i + Len(SecretTag) + 1)..Len(s) :
                 /\ \A k \in (i + Len(SecretTag))..(j - 1) : IsSpace(s[k])
                 /\ IsWord(s[j])
        e == CHOOSE e \in j..Len(s) :
                 /\ \A k \in j..e : IsWord(s[k])
                 /\ (e = Len(s) \/ ~IsWord(s[e + 1]))
    IN  SubSeq(s, j, e)

\* the identifiers the example secrets file declares: the words that
\* start a line and are followed by a colon
Declared ==
    IF ~example.exists THEN {}
    ELSE LET ls == readlines(example.content)
         IN  UNION { {SubSeq(ls[n], 1, e) :
                         e \in {d \in 1..(Len(ls[n]) - 1) :
                                   /\ \A k \in 1..d : IsWord(ls[n][k])
                                   /\ ls[n][d + 1] = ":"}} :
                     n \in 1..Len(ls) }

\* the occurrences in file f that check_secret_references has to report
Reportable(f) ==
    IF refs_seen[f] # "read" THEN {}
    ELSE {i \in Occurrences(files[f].content) :
             IdentifierAt(files[f].content, i) \notin Declared}

----------------------------------------------------------------------------
(* C7: protected secrets files are never read *)

\* C7: a file whose name contains "secret" and not "example" is never
\* opened by any of the three file checks and contributes no entry to any
\* of the three result lists.
C7_ProtectedUntouched ==
    \A f \in Files :
        Protected(f) =>
            /\ yaml_seen[f] \in Untouched
            /\ refs_seen[f] \in Untouched
            /\ hard_seen[f].st \in Untouched
            /\ \A k \in 1..Len(errors) : errors[k][1] # f
            /\ \A k \in 1..Len(missing) : missing[k][2] # f
            /\ \A k \in 1..Len(suspicious) : suspicious[k][1] # f

\* a complete run over a tree with a protected file, passed over by all
\* three checks
C7_Witness ==
    /\ pc = "exit"
    /\ summary # "none"
    /\ \E f \in Files :
        /\ Protected(f)
        /\ yaml_seen[f] = "skipped"
        /\ refs_seen[f] = "skipped"
        /\ hard_seen[f].st = "skipped"

----------------------------------------------------------------------------
(* C8: unreadable files in the two secret scans *)

MissingOf(f) == {k \in 1..Len(missing) : missing[k][2] = f}
SuspiciousOf(f) == {k \in 1..Len(suspicious) : suspicious[k][1] = f}
LinesOf(f) == readlines(files[f].content)

\* Original statement of C8: in both scans a file whose read fails
\* contributes no entry at all to the returned list.
C8_FailedReadLeavesNothing ==
    \A f \in Files :
        /\ refs_seen[f] = "failed" => MissingOf(f) = {}
        /\ hard_seen[f].st = "failed" => SuspiciousOf(f) = {}

\* C8 (amended): a failed read surfaces no error and never ends either
\* scan, which goes on to the remaining files.  In the reference scan the
\* file contributes no entry.  In the hardcoded-secret scan, which searches
\* each line as it is read, the file contributes the findings of the lines
\* read before the failure and nothing for the lines after it.
C8_FailedReadSkipped ==
    /\ \A f \in Files : refs_seen[f] = "failed" => MissingOf(f) = {}
    /\ \A f \in Files :
        hard_seen[f].st = "failed" =>
            /\ hard_seen[f].n = 0 => SuspiciousOf(f) = {}
            /\ \A k \in SuspiciousOf(f) : suspicious[k][2] \in 1..hard_seen[f].n
            /\ \A n \in 1..hard_seen[f].n, c \in Categories :
                ~Contains(LinesOf(f)[n], SecretTag) /\ Search(c, LinesOf(f)[n])
                    => Has(suspicious, <<f, n, strip(LinesOf(f)[n]), c>>)
    /\ uncaught # "none" =>
        \A f \in Files : refs_seen[f] = "none" /\ hard_seen[f].st = "none"
    /\ Has(finished, "refs") => \A f \in Files : refs_seen[f] # "none"
    /\ Has(finished, "hard") => \A f \in Files : hard_seen[f].st # "none"

\* a complete run in which one file failed in both scans, after a flagged
\* line in the second of them, and another file was still read
C8_Witness ==
    /\ pc = "exit"
    /\ summary # "none"
    /\ \E f, g \in Files :
        /\ f # g
        /\ refs_seen[f] = "failed"
        /\ hard_seen[f].st = "failed"
        /\ hard_seen[f].n >= 1
        /\ SuspiciousOf(f) # {}
        /\ refs_seen[g] = "read"
        /\ hard_seen[g].st = "read"

----------------------------------------------------------------------------
(* C9: the password pattern *)

\* the line holds a password: assignment whose value is not empty and does
\* not start with "!"
PasswordAssigned(line) ==
    \E i \in 1..Len(line) :
        /\ LitAt(line, i, PasswordLit)
        /\ LET value == strip(SubSeq(line, i + Len(PasswordLit), Len(line)))
           IN  value # <<>> /\ value[1] # "!"

PasswordFinding(f, n) ==
    \E k \in SuspiciousOf(f) :
        suspicious[k][2] = n /\ suspicious[k][4] = "Password"

\* C9: a searched line gets a "Password" finding exactly when it holds a
\* password: assignment whose value is not empty and does not start
\* with "!".
C9_PasswordRule ==
    \A f \in Files :
        hard_seen[f].st = "read" =>
            \A n \in 1..Len(LinesOf(f)) :
                ~Contains(LinesOf(f)[n], SecretTag) =>
                    (PasswordFinding(f, n) <=> PasswordAssigned(LinesOf(f)[n]))

----------------------------------------------------------------------------
(* C10: the entries of check_for_hardcoded_secrets *)

====
